---- MODULE Spec2Model ----
(***************************************************************************)
(* A model of booking-ba-scraper: the pagination-and-extraction loop of    *)
(* BookingScraper.scrape with _parse_hotel_card, _clean_price and          *)
(* _build_url (src/src/scraping/scraper.py), the batch writer CSVWriter    *)
(* (src/src/writers/csv_writer.py), the date validator                     *)
(* (src/src/utils/input_validators.py) and the pipeline run_scraping       *)
(* (src/src/main.py).                                                      *)
(*                                                                         *)
(* Python strings are TLA+ strings; Char(s, i) reads one character.        *)
(***************************************************************************)
EXTENDS Integers, Sequences, FiniteSets, TLC

(***************************************************************************)
(* Bounds of the model.                                                    *)
(***************************************************************************)
\* The most cards the page's DOM holds at one time.
MaxDom == 3
\* The largest batch_size a writer is given.
MaxBatchSize == 3
\* The most add_hotel calls made on one writer.
MaxAdds == 4
\* The longest of the price texts made up from PriceChars.
MaxPriceLen == 3

(***************************************************************************)
(* Program constants.                                                      *)
(***************************************************************************)
\* settings.MAX_RETRIES
MAX_RETRIES == 5
\* settings.BACKOFF_FACTOR
BACKOFF_FACTOR == 4
\* the literal 500 of BookingScraper.__init__
MAX_HOTELS_CAP == 500

\* The values of the constructor's max_hotels argument the model tries.
RequestedMaxHotels == {-1, 0, 1, 2, 501}

\* The href attributes a card's title link may carry; "" is a card whose
\* title link is missing or has no href.
Hrefs == {"", "a", " a"}

\* The cards the page renders: the href of the title link and the texts of
\* the price and of the taxes-and-charges elements, "" for an element that
\* is missing.
PageCards ==
  {[href |-> "", price |-> "", fees |-> ""],
   [href |-> "a", price |-> "$ 230,821", fees |-> "+$ 61,426 taxes and fees"],
   [href |-> " a", price |-> "$ 150.75", fees |-> "Includes taxes and fees"]}

\* The dates the scraper that runs scrape() was built with.
SearchDates == [checkin_date |-> "2026-11-05", checkout_date |-> "2026-11-06"]

VARIABLES
  \* ---- BookingScraper ----
  requested,                \* the max_hotels argument of __init__
  max_hotels,               \* self.max_hotels
  _processed_hotels,        \* self._processed_hotels
  dom,                      \* the page: its hotel cards in document order
  pc,                       \* where scrape() stands
  scraped_count,            \* local of scrape()
  no_new_content_attempts,  \* local of scrape()
  previous_count,           \* local of scrape()
  cards,                    \* the cards of the current pass still to visit
  yielded,                  \* the hotels scrape() has yielded, in order
  exit_path,                \* which exit of the while loop ended scrape()
  wait_timed_out,           \* _wait_for_new_content has just returned False
  delay,                    \* the seconds _apply_backoff is sleeping, or 0
  \* ---- CSVWriter ----
  batch_size,               \* self.batch_size
  _buffer,                  \* self._buffer
  _file_counter,            \* self._file_counter
  _total_written,           \* self._total_written
  files,                    \* the CSV files of output_dir: name -> rows
  written_by,               \* for each file, the call that wrote it
  w_op,                     \* the last call made on the writer
  w_pre,                    \* the writer's state when that call was made
  wfg_pc,                   \* where write_from_generator stands
  wfg_items,                \* the hotels its iterator has produced
  wfg_fresh,                \* whether it was called on a fresh writer
  wfg_ret,                  \* its return value
  \* ---- validate_dates ----
  v_checkin,                \* the checkin argument
  v_checkout,               \* the checkout argument
  v_today,                  \* datetime.now(), as <<year, month, day>>
  v_result,                 \* what the call returned or raised
  \* ---- _build_url ----
  u_scrapers,               \* two BookingScraper objects, once constructed
  u_given,                  \* the optional arguments each was given
  u_built,                  \* what each one's last _build_url() returned
  \* ---- _clean_price ----
  p_price_str,              \* the argument
  p_result,                 \* what the call returned or raised
  \* ---- _parse_hotel_card ----
  k_self,                   \* the scraper: its dates and _processed_hotels
  k_card,                   \* the card
  k_called,                 \* whether the call has been made
  k_result,                 \* what the call did and returned
  \* ---- run_scraping ----
  r_pc,                     \* where run_scraping stands
  r_exc,                    \* the class of the exception raised, "" if none
  r_output_dir,             \* whether the output directory exists
  r_handles,                \* the scraper's _playwright, _browser, _context, _page
  r_live,                   \* the browser resources that are open
  r_released,               \* the resources close() has released, in order
  r_failed_at               \* the hotels added when scrape() raised, -1 if it has not

scraperVars == <<requested, max_hotels, _processed_hotels, dom, pc,
                 scraped_count, no_new_content_attempts, previous_count,
                 cards, yielded, exit_path, wait_timed_out, delay>>

writerVars == <<batch_size, _buffer, _file_counter, _total_written, files,
                written_by, w_op, w_pre, wfg_pc, wfg_items, wfg_fresh, wfg_ret>>

validatorVars == <<v_checkin, v_checkout, v_today, v_result>>

urlVars == <<u_scrapers, u_given, u_built>>

priceVars == <<p_price_str, p_result>>

parseVars == <<k_self, k_card, k_called, k_result>>

runVars == <<r_pc, r_exc, r_output_dir, r_handles, r_live, r_released,
             r_failed_at>>

vars == <<scraperVars, writerVars, validatorVars, urlVars, priceVars,
          parseVars, runVars>>

\* What an action of one component leaves alone.
notScraperVars ==
  <<writerVars, validatorVars, urlVars, priceVars, parseVars, runVars>>
notWriterVars ==
  <<scraperVars, validatorVars, urlVars, priceVars, parseVars, runVars>>
notValidatorVars ==
  <<scraperVars, writerVars, urlVars, priceVars, parseVars, runVars>>
notUrlVars ==
  <<scraperVars, writerVars, validatorVars, priceVars, parseVars, runVars>>
notPriceVars ==
  <<scraperVars, writerVars, validatorVars, urlVars, parseVars, runVars>>
notParseVars ==
  <<scraperVars, writerVars, validatorVars, urlVars, priceVars, runVars>>
\* run_scraping uses the validator and the writer.
notRunVars == <<scraperVars, urlVars, priceVars, parseVars>>

(***************************************************************************)
(* Strings.                                                                *)
(***************************************************************************)
Char(s, i) == SubSeq(s, i, i)

Whitespace == {" "}

RECURSIVE LStrip(_)
LStrip(s) ==
  IF Len(s) > 0 /\ Char(s, 1) \in Whitespace
    THEN LStrip(SubSeq(s, 2, Len(s)))
    ELSE s

RECURSIVE RStrip(_)
RStrip(s) ==
  IF Len(s) > 0 /\ Char(s, Len(s)) \in Whitespace
    THEN RStrip(SubSeq(s, 1, Len(s) - 1))
    ELSE s

\* str.strip()
Strip(s) == RStrip(LStrip(s))

DigitChars == "0123456789"

IsDigit(c) == \E d \in 1..10 : Char(DigitChars, d) = c

DigitValue(c) == (CHOOSE d \in 1..10 : Char(DigitChars, d) = c) - 1

\* int() of a matched group
RECURSIVE GroupValue(_)
GroupValue(t) ==
  IF t = "" THEN 0
  ELSE IF Char(t, Len(t)) = " " THEN 0
  ELSE 10 * GroupValue(SubSeq(t, 1, Len(t) - 1)) + DigitValue(Char(t, Len(t)))

\* What a call did: it raised an exception (error), or it returned value.
Raise(message) == [raised |-> TRUE, error |-> message, value |-> <<>>]
Return(value) == [raised |-> FALSE, error |-> "", value |-> value]

RemoveAt(seq, i) == SubSeq(seq, 1, i - 1) \o SubSeq(seq, i + 1, Len(seq))

(***************************************************************************)
(* models.hotel.Hotel: every field is a str and Config.str_strip_whitespace*)
(* strips each of them on construction.                                    *)
(***************************************************************************)
Hotel(fields) == [f \in DOMAIN fields |-> Strip(fields[f])]

(***************************************************************************)
(* BookingScraper                                                          *)
(***************************************************************************)
\* The no-break space "\xa0" is written "_" in the strings of the model.
NBSP == "_"

\* A float that is a decimal number: digits / 10^scale, with no trailing
\* zero among the decimals, so that equal numbers are equal values.
RECURSIVE Float(_, _)
Float(digits, scale) ==
  IF scale > 0 /\ digits % 10 = 0
    THEN Float(digits \div 10, scale - 1)
    ELSE <<digits, scale>>

\* str.replace(old, new), old being one character
RECURSIVE Replace(_, _, _)
Replace(str, old, new) ==
  IF str = "" THEN ""
  ELSE (IF Char(str, 1) = old THEN new ELSE Char(str, 1))
         \o Replace(SubSeq(str, 2, Len(str)), old, new)

\* t in str
In(t, str) ==
  \E i \in 1..(Len(str) - Len(t) + 1) : SubSeq(str, i, i + Len(t) - 1) = t

\* re.search(r"(\d+[\d,.]*)", str).group(1): the leftmost match starts at
\* the first digit and, both repetitions being greedy, runs to the last of
\* the digits, commas and dots that follow it; "" stands for no match.
RECURSIVE NumericRun(_)
NumericRun(str) ==
  IF str = "" THEN ""
  ELSE IF IsDigit(Char(str, 1)) \/ Char(str, 1) \in {",", "."}
    THEN Char(str, 1) \o NumericRun(SubSeq(str, 2, Len(str)))
    ELSE ""

RECURSIVE re_search(_)
re_search(str) ==
  IF str = "" THEN ""
  ELSE IF IsDigit(Char(str, 1)) THEN NumericRun(str)
  ELSE re_search(SubSeq(str, 2, Len(str)))

\* num_str.replace(",", ""), line 284
RemoveCommas_Not(num_str) == num_str
RemoveCommas(num_str) == Replace(num_str, ",", "")

\* The number of dots in str.
RECURSIVE Dots(_)
Dots(str) ==
  IF str = "" THEN 0
  ELSE (IF Char(str, 1) = "." THEN 1 ELSE 0) + Dots(SubSeq(str, 2, Len(str)))

\* The position of the first dot of str, Len(str) + 1 if it has none.
RECURSIVE DotAt(_)
DotAt(str) ==
  IF str = "" \/ Char(str, 1) = "." THEN 1
  ELSE 1 + DotAt(SubSeq(str, 2, Len(str)))

\* float(str) of a string that starts with a digit: digits, then at most
\* one dot and digits; anything else is a ValueError.
float(str) ==
  IF \/ Dots(str) > 1
     \/ \E i \in 1..Len(str) : ~IsDigit(Char(str, i)) /\ Char(str, i) # "."
    THEN Raise("ValueError")
    ELSE LET whole == SubSeq(str, 1, DotAt(str) - 1)
             decimals == SubSeq(str, DotAt(str) + 1, Len(str))
         IN  Return(Float(GroupValue(whole \o decimals), Len(decimals)))

\* _clean_price
_clean_price(price_str) ==
  IF price_str = "" \/ In("N/A", price_str)
    THEN Return(Float(0, 0))
    ELSE LET stripped == Strip(Replace(price_str, NBSP, " "))
             num_str == re_search(stripped)
         IN  IF num_str # ""
               THEN LET r == float(RemoveCommas(num_str))
                    IN  IF r.raised THEN Return(Float(0, 0)) ELSE r
               ELSE Return(Float(0, 0))

\* __init__: self.max_hotels = min(max_hotels, 500)
InitMaxHotels(n) == IF n < MAX_HOTELS_CAP THEN n ELSE MAX_HOTELS_CAP

\* _get_hotel_cards: the handles of the cards not marked data-scraped, as
\* positions in the DOM, in document order.
_get_hotel_cards(d) ==
  LET Sel[i \in 0..Len(d)] ==
        IF i = 0 THEN <<>>
        ELSE IF d[i].scraped THEN Sel[i - 1] ELSE Append(Sel[i - 1], i)
  IN  Sel[Len(d)]

\* _extract_href_safe with the default "N/A": a missing element, a missing
\* or empty href and an exception all give the default.
_extract_href_safe(card) == IF card.href = "" THEN "N/A" ELSE card.href

\* _extract_text_safe with the default "N/A": a missing element, an empty
\* text and an exception give the default, any other text is stripped.
_extract_text_safe(text) == IF text = "" THEN "N/A" ELSE Strip(text)

\* 10 ** k
RECURSIVE Pow10(_)
Pow10(k) == IF k = 0 THEN 1 ELSE 10 * Pow10(k - 1)

\* float + float, line 246, for decimal numbers whose sum a float holds
\* exactly (whole numbers, quarters).
FloatAdd_Left(a, b) == a
FloatAdd(a, b) ==
  LET scale == IF a[2] > b[2] THEN a[2] ELSE b[2]
  IN  Float(a[1] * Pow10(scale - a[2]) + b[1] * Pow10(scale - b[2]), scale)

\* The last k digits of n, zero-padded.
RECURSIVE LastDigits(_, _)
LastDigits(n, k) ==
  IF k = 0 THEN "" ELSE LastDigits(n \div 10, k - 1) \o ToString(n % 10)

\* str(float): the whole part, a dot and the decimals, "0" if there are none
str(f) ==
  ToString(f[1] \div Pow10(f[2])) \o "."
    \o (IF f[2] = 0 THEN "0" ELSE LastDigits(f[1], f[2]))

\* The membership test of _parse_hotel_card, line 231.
AlreadyProcessed(link, processed) == link \in processed

\* _parse_hotel_card on card, with evalOk telling whether card.evaluate
\* (the data-scraped mark) succeeded; an exception there is caught and gives
\* None before anything is recorded.  The result: whether the card got
\* marked, the hotel returned (<<>> for None), and _processed_hotels after.
\* Of the fields of Hotel, those that are texts copied from the card
\* (nombre_hotel, ubicacion, calificacion, puntaje, cantidad_reviews) are
\* left out.
_parse_hotel_card(self, card, evalOk, processed) ==
  LET link == _extract_href_safe(card)
      raw_precio_inicial == _extract_text_safe(card.price)
      precio_inicial_float == _clean_price(raw_precio_inicial).value
      raw_fees == _extract_text_safe(card.fees)
      fees_float == _clean_price(raw_fees).value
      precio_final_float == FloatAdd(precio_inicial_float, fees_float)
  IN
  IF ~evalOk
    THEN [marked |-> FALSE, hotel |-> <<>>, processed |-> processed]
    ELSE IF AlreadyProcessed(link, processed)
      THEN [marked |-> TRUE, hotel |-> <<>>, processed |-> processed]
      ELSE [marked |-> TRUE,
            hotel |-> <<Hotel([checkin_date |-> self.checkin_date,
                               checkout_date |-> self.checkout_date,
                               precio_inicial |-> str(precio_inicial_float),
                               precio_impuesto |-> str(fees_float),
                               precio_final |-> str(precio_final_float),
                               link_detalle |-> link])>>,
            processed |-> processed \cup {link}]

\* The cards of d once a pass has read it: seen tells of each card whether
\* some pass of scrape() has had it in the list it read (line 403).
Read(d) == [i \in DOMAIN d |-> [d[i] EXCEPT !.seen = TRUE]]

\* _apply_backoff: the delay it sleeps, line 370.
_apply_backoff_Linear(attempt) == BACKOFF_FACTOR * attempt
_apply_backoff(attempt) == BACKOFF_FACTOR ^ attempt

\* The condition of the while loop, line 402.
WhileGuard(count, max) == count < max

\* The break of the for loop, lines 413-414.
ForBreak_Late(count, max) == count > max
ForBreak(count, max) == count >= max

\* The exhaustion test, line 443.
Exhausted(attempts) == attempts >= MAX_RETRIES

\* _wait_for_new_content(previous_count): some poll within the timeout finds
\* more unmarked cards than previous_count.
_wait_for_new_content(d, prev) == Len(_get_hotel_cards(d)) > prev

ScraperInit ==
  /\ requested \in RequestedMaxHotels
  /\ max_hotels = InitMaxHotels(requested)
  /\ _processed_hotels = {}
  /\ dom = <<>>
  /\ pc = "start"
  /\ scraped_count = 0
  /\ no_new_content_attempts = 0
  /\ previous_count = 0
  /\ cards = <<>>
  /\ yielded = <<>>
  /\ exit_path = "running"
  /\ wait_timed_out = FALSE
  /\ delay = 0

\* ---- the page (the browser's DOM, outside the program) ----
\* The page renders cards while the program is not iterating over a pass.
PagePcs == {"start", "while", "load", "wait", "backoff"}

\* The page renders one more card.
PageAppend ==
  /\ pc \in PagePcs
  /\ UNCHANGED notScraperVars
  /\ UNCHANGED <<wait_timed_out, delay>>
  /\ Len(dom) < MaxDom
  /\ \E c \in PageCards :
       dom' = Append(dom, [href |-> c.href, price |-> c.price, fees |-> c.fees,
                           scraped |-> FALSE, seen |-> FALSE])
  /\ UNCHANGED <<requested, max_hotels, _processed_hotels, pc, scraped_count,
                 no_new_content_attempts, previous_count, cards, yielded,
                 exit_path>>

\* The page removes a card from the DOM (a re-render, a virtualised list).
PageDetach ==
  /\ pc \in PagePcs
  /\ UNCHANGED notScraperVars
  /\ UNCHANGED <<wait_timed_out, delay>>
  /\ \E i \in 1..Len(dom) : dom' = RemoveAt(dom, i)
  /\ UNCHANGED <<requested, max_hotels, _processed_hotels, pc, scraped_count,
                 no_new_content_attempts, previous_count, cards, yielded,
                 exit_path>>

\* ---- scrape() ----
\* lines 395-400
scrape_start ==
  /\ pc = "start"
  /\ UNCHANGED notScraperVars
  /\ UNCHANGED <<wait_timed_out, delay>>
  /\ scraped_count' = 0
  /\ no_new_content_attempts' = 0
  /\ pc' = "while"
  /\ UNCHANGED <<requested, max_hotels, _processed_hotels, dom,
                 previous_count, cards, yielded, exit_path>>

\* lines 402-409: the loop test, the DOM read, the empty-read break
scrape_while ==
  /\ pc = "while"
  /\ UNCHANGED notScraperVars
  /\ UNCHANGED <<wait_timed_out, delay>>
  /\ IF ~WhileGuard(scraped_count, max_hotels)
       THEN /\ pc' = "done"
            /\ exit_path' = "cap"
            /\ UNCHANGED <<cards, previous_count, dom>>
       ELSE LET read == _get_hotel_cards(dom) IN
            IF read = <<>>
              THEN /\ pc' = "done"
                   /\ exit_path' = "no_cards"
                   /\ UNCHANGED <<cards, previous_count, dom>>
              ELSE /\ cards' = read
                   /\ previous_count' = Len(read)
                   /\ pc' = "for"
                   /\ dom' = Read(dom)
                   /\ UNCHANGED exit_path
  /\ UNCHANGED <<requested, max_hotels, _processed_hotels, scraped_count,
                 no_new_content_attempts, yielded>>

\* lines 412-422: one iteration of the for loop
scrape_for_card ==
  /\ pc = "for"
  /\ UNCHANGED notScraperVars
  /\ UNCHANGED <<wait_timed_out, delay>>
  /\ cards # <<>>
  /\ ~ForBreak(scraped_count, max_hotels)
  /\ \E evalOk \in BOOLEAN :
       LET i == Head(cards)
           r == _parse_hotel_card(SearchDates, dom[i], evalOk, _processed_hotels)
       IN  /\ dom' = IF r.marked THEN [dom EXCEPT ![i].scraped = TRUE] ELSE dom
           /\ _processed_hotels' = r.processed
           /\ scraped_count' = scraped_count + Len(r.hotel)
           /\ yielded' = yielded \o r.hotel
  /\ cards' = Tail(cards)
  /\ UNCHANGED <<requested, max_hotels, pc, no_new_content_attempts,
                 previous_count, exit_path>>

\* lines 413-414 (break) or the end of the list, then lines 424-425
scrape_for_end ==
  /\ pc = "for"
  /\ UNCHANGED notScraperVars
  /\ UNCHANGED <<wait_timed_out, delay>>
  /\ cards = <<>> \/ ForBreak(scraped_count, max_hotels)
  /\ cards' = <<>>
  /\ IF scraped_count >= max_hotels
       THEN pc' = "done" /\ exit_path' = "cap"
       ELSE pc' = "load" /\ UNCHANGED exit_path
  /\ UNCHANGED <<requested, max_hotels, _processed_hotels, dom, scraped_count,
                 no_new_content_attempts, previous_count, yielded>>

\* lines 428-431: _scroll_page and _click_load_more, each reporting whether
\* it did something
scrape_load_more ==
  /\ pc = "load"
  /\ UNCHANGED notScraperVars
  /\ UNCHANGED <<wait_timed_out, delay>>
  /\ \E scrolled \in BOOLEAN, loaded_more \in BOOLEAN :
       pc' = IF scrolled \/ loaded_more THEN "wait" ELSE "no_content"
  /\ UNCHANGED <<requested, max_hotels, _processed_hotels, dom, scraped_count,
                 no_new_content_attempts, previous_count, cards, yielded,
                 exit_path>>

\* lines 432-435
scrape_wait ==
  /\ pc = "wait"
  /\ UNCHANGED notScraperVars
  /\ IF _wait_for_new_content(dom, previous_count)
       THEN /\ no_new_content_attempts' = 0
            /\ pc' = "while"
            /\ UNCHANGED wait_timed_out
       ELSE /\ pc' = "no_content"
            /\ wait_timed_out' = TRUE
            /\ UNCHANGED no_new_content_attempts
  /\ UNCHANGED delay
  /\ UNCHANGED <<requested, max_hotels, _processed_hotels, dom, scraped_count,
                 previous_count, cards, yielded, exit_path>>

\* lines 438-449: the attempt is counted; scrape() gives up or calls
\* _apply_backoff, which computes its delay and goes to sleep
scrape_no_content ==
  /\ pc = "no_content"
  /\ UNCHANGED notScraperVars
  /\ no_new_content_attempts' = no_new_content_attempts + 1
  /\ wait_timed_out' = FALSE
  /\ IF Exhausted(no_new_content_attempts')
       THEN /\ pc' = "done"
            /\ exit_path' = "exhausted"
            /\ UNCHANGED delay
       ELSE /\ pc' = "backoff"
            /\ delay' = _apply_backoff(no_new_content_attempts')
            /\ UNCHANGED exit_path
  /\ UNCHANGED <<requested, max_hotels, _processed_hotels, dom, scraped_count,
                 previous_count, cards, yielded>>

\* line 449: the sleep of _apply_backoff ends and the loop goes round
scrape_backoff ==
  /\ pc = "backoff"
  /\ UNCHANGED notScraperVars
  /\ pc' = "while"
  /\ delay' = 0
  /\ UNCHANGED wait_timed_out
  /\ UNCHANGED <<requested, max_hotels, _processed_hotels, dom, scraped_count,
                 no_new_content_attempts, previous_count, cards, yielded,
                 exit_path>>

ScrapeStep ==
  \/ scrape_start
  \/ scrape_while
  \/ scrape_for_card
  \/ scrape_for_end
  \/ scrape_load_more
  \/ scrape_wait
  \/ scrape_no_content
  \/ scrape_backoff

PageStep == PageAppend \/ PageDetach

(***************************************************************************)
(* CSVWriter                                                               *)
(***************************************************************************)
\* The hotels handed to the writer: each stands for one CSV row.
WriterHotels == {"h1", "h2"}

\* The batch sizes tried: settings.BATCH_SIZE is the default and callers set
\* self.batch_size to small values.
BatchSizes == 1..MaxBatchSize

\* f"{n:03d}": at least three digits, zero-padded
Format03d(n) ==
  IF n < 10 THEN "00" \o ToString(n)
  ELSE IF n < 100 THEN "0" \o ToString(n)
  ELSE ToString(n)

\* The writer's fields and the files of its output_dir, as one value.
Writer ==
  [buffer |-> _buffer, file_counter |-> _file_counter,
   total_written |-> _total_written, files |-> files,
   written_by |-> written_by]

\* __init__ (output_dir is a directory of its own, empty)
FreshWriter ==
  [buffer |-> <<>>, file_counter |-> 0, total_written |-> 0,
   files |-> <<>>, written_by |-> <<>>]

\* open(filepath, "w") and the rows written through csv.DictWriter
WriteFile(fs, name, rows) ==
  [f \in DOMAIN fs \cup {name} |-> IF f = name THEN rows ELSE fs[f]]

\* _get_next_filename: the bumped counter and the name made from it
_get_next_filename_NoIncrement(w) ==
  [file_counter |-> w.file_counter,
   name |-> "booking_hotels_" \o Format03d(w.file_counter) \o ".csv"]
_get_next_filename(w) ==
  [file_counter |-> w.file_counter + 1,
   name |-> "booking_hotels_" \o Format03d(w.file_counter + 1) \o ".csv"]

\* The early return of _write_batch, lines 76-77.
WriteBatchReturnsEarly_Never(w) == FALSE
WriteBatchReturnsEarly(w) == w.buffer = <<>>

\* _write_batch, called from caller
_write_batch(w, caller) ==
  IF WriteBatchReturnsEarly(w)
    THEN w
    ELSE LET nxt == _get_next_filename(w) IN
         [buffer |-> <<>>,
          file_counter |-> nxt.file_counter,
          total_written |-> w.total_written + Len(w.buffer),
          files |-> WriteFile(w.files, nxt.name, w.buffer),
          written_by |-> WriteFile(w.written_by, nxt.name, caller)]

\* The test of add_hotel, line 103.
BatchIsFull_Late(n, size) == n > size
BatchIsFull(n, size) == n >= size

\* add_hotel
add_hotel(w, hotel) ==
  LET w1 == [w EXCEPT !.buffer = Append(@, hotel)] IN
  IF BatchIsFull(Len(w1.buffer), batch_size)
    THEN _write_batch(w1, "add_hotel")
    ELSE w1

\* flush, called as caller
flush_Nothing(w, caller) == w
flush(w, caller) == IF w.buffer # <<>> THEN _write_batch(w, caller) ELSE w

\* The end of write_from_generator, lines 119-122: the flush and the value
\* returned.
write_from_generator_end_NoFlush(w) == [w |-> w, ret |-> w.total_written]
write_from_generator_end(w) ==
  LET w1 == flush(w, "flush") IN [w |-> w1, ret |-> w1.total_written]

\* get_stats
get_stats(w) ==
  [total_written |-> w.total_written, files_created |-> w.file_counter]

\* __exit__: the flush (the statistics are only logged)
__exit__WithoutFlush(w) == w
__exit__(w) == flush(w, "__exit__")

\* The add_hotel calls made so far.
Added == _total_written + Len(_buffer)

WriterInit ==
  /\ batch_size \in BatchSizes
  /\ _buffer = FreshWriter.buffer
  /\ _file_counter = FreshWriter.file_counter
  /\ _total_written = FreshWriter.total_written
  /\ files = FreshWriter.files
  /\ written_by = FreshWriter.written_by
  /\ w_op = "__init__"
  /\ w_pre = FreshWriter
  /\ wfg_pc = "idle"
  /\ wfg_items = <<>>
  /\ wfg_fresh = FALSE
  /\ wfg_ret = 0

\* The writer is left as w by the call op.
WriterBecomes(w, op) ==
  /\ _buffer' = w.buffer
  /\ _file_counter' = w.file_counter
  /\ _total_written' = w.total_written
  /\ files' = w.files
  /\ written_by' = w.written_by
  /\ w_op' = op
  /\ w_pre' = Writer
  /\ UNCHANGED batch_size

\* No write_from_generator is running or has just returned.
WfgForgotten ==
  /\ wfg_pc' = "idle"
  /\ wfg_items' = <<>>
  /\ wfg_fresh' = FALSE
  /\ wfg_ret' = 0

\* A caller calls add_hotel.
call_add_hotel ==
  /\ wfg_pc # "iterating"
  /\ UNCHANGED notWriterVars
  /\ Added < MaxAdds
  /\ \E hotel \in WriterHotels : WriterBecomes(add_hotel(Writer, hotel), "add_hotel")
  /\ WfgForgotten

\* A caller calls flush.
call_flush ==
  /\ wfg_pc # "iterating"
  /\ UNCHANGED notWriterVars
  /\ WriterBecomes(flush(Writer, "flush"), "flush")
  /\ WfgForgotten

\* A caller (a test) calls _write_batch directly.
call_write_batch ==
  /\ wfg_pc # "iterating"
  /\ UNCHANGED notWriterVars
  /\ WriterBecomes(_write_batch(Writer, "_write_batch"), "_write_batch")
  /\ WfgForgotten

\* The with-block is left: normally, or by an exception that ends
\* write_from_generator where it stands.
call_exit ==
  /\ wfg_pc \in {"idle", "iterating", "returned"}
  /\ UNCHANGED notWriterVars
  /\ WriterBecomes(__exit__(Writer), "__exit__")
  /\ WfgForgotten

\* write_from_generator is called.
wfg_start ==
  /\ wfg_pc \in {"idle", "returned"}
  /\ UNCHANGED notWriterVars
  /\ wfg_pc' = "iterating"
  /\ wfg_items' = <<>>
  /\ wfg_fresh' = (Writer = FreshWriter)
  /\ UNCHANGED <<batch_size, _buffer, _file_counter, _total_written, files,
                 written_by, w_op, w_pre, wfg_ret>>

\* lines 116-117: the iterator produces a hotel
wfg_next ==
  /\ wfg_pc = "iterating"
  /\ UNCHANGED notWriterVars
  /\ Added < MaxAdds
  /\ \E hotel \in WriterHotels :
       /\ WriterBecomes(add_hotel(Writer, hotel), "add_hotel")
       /\ wfg_items' = Append(wfg_items, hotel)
  /\ UNCHANGED <<wfg_pc, wfg_fresh, wfg_ret>>

\* lines 119-122: the iterator is exhausted
wfg_end ==
  /\ wfg_pc = "iterating"
  /\ UNCHANGED notWriterVars
  /\ LET r == write_from_generator_end(Writer) IN
       /\ WriterBecomes(r.w, "flush")
       /\ wfg_ret' = r.ret
  /\ wfg_pc' = "returned"
  /\ UNCHANGED <<wfg_items, wfg_fresh>>

WriterStep ==
  \/ call_add_hotel
  \/ call_flush
  \/ call_write_batch
  \/ call_exit
  \/ wfg_start
  \/ wfg_next
  \/ wfg_end

(***************************************************************************)
(* utils.input_validators                                                  *)
(***************************************************************************)
\* The strings tried as dates.
DateStrings ==
  {"2026-11-05", "2026-11-06", "2026-11-04", "2025-12-31", "2027-01-01",
   "2026-11-5", "2026-02-30", "2026-13-01", "20261105", ""}

\* The days the call is made on.
Todays == {<<2026, 11, 5>>, <<2026, 11, 6>>}

IsLeap(y) == (y % 4 = 0 /\ y % 100 # 0) \/ y % 400 = 0

DaysInMonth(y, m) ==
  IF m = 2 THEN (IF IsLeap(y) THEN 29 ELSE 28)
  ELSE IF m \in {4, 6, 9, 11} THEN 30 ELSE 31

\* The directive %m of strptime: 1[0-2]|0[1-9]|[1-9]
MatchesMonth(t) ==
  \/ /\ Len(t) = 2
     /\ \/ Char(t, 1) = "1" /\ Char(t, 2) \in {"0", "1", "2"}
        \/ Char(t, 1) = "0" /\ IsDigit(Char(t, 2)) /\ Char(t, 2) # "0"
  \/ Len(t) = 1 /\ IsDigit(t) /\ t # "0"

\* The directive %d of strptime: 3[0-1]|[1-2]\d|0[1-9]|[1-9]| [1-9]
MatchesDay(t) ==
  \/ /\ Len(t) = 2
     /\ \/ Char(t, 1) = "3" /\ Char(t, 2) \in {"0", "1"}
        \/ Char(t, 1) \in {"1", "2"} /\ IsDigit(Char(t, 2))
        \/ Char(t, 1) \in {"0", " "} /\ IsDigit(Char(t, 2)) /\ Char(t, 2) # "0"
  \/ Len(t) = 1 /\ IsDigit(t) /\ t # "0"

\* The directive %Y of strptime: \d\d\d\d
MatchesYear(t) == Len(t) = 4 /\ \A i \in 1..4 : IsDigit(Char(t, i))

\* The ways "%Y-%m-%d" matches the whole of s: the lengths of the month and
\* day groups.
Matches(s) ==
  {g \in {1, 2} \X {1, 2} :
     /\ Len(s) = 6 + g[1] + g[2]
     /\ MatchesYear(SubSeq(s, 1, 4))
     /\ Char(s, 5) = "-"
     /\ MatchesMonth(SubSeq(s, 6, 5 + g[1]))
     /\ Char(s, 6 + g[1]) = "-"
     /\ MatchesDay(SubSeq(s, 7 + g[1], Len(s)))}

\* datetime.strptime(s, "%Y-%m-%d"): <<year, month, day>>, or <<>> for the
\* ValueError of a string that does not match or names no day of the calendar.
strptime(s) ==
  IF Matches(s) = {} THEN <<>>
  ELSE LET g == CHOOSE x \in Matches(s) : TRUE
           y == GroupValue(SubSeq(s, 1, 4))
           m == GroupValue(SubSeq(s, 6, 5 + g[1]))
           d == GroupValue(SubSeq(s, 7 + g[1], Len(s)))
       IN  IF y >= 1 /\ d <= DaysInMonth(y, m) THEN <<y, m, d>> ELSE <<>>

\* datetime's <
DateBefore(a, b) ==
  \/ a[1] < b[1]
  \/ a[1] = b[1] /\ a[2] < b[2]
  \/ a[1] = b[1] /\ a[2] = b[2] /\ a[3] < b[3]

\* validate_date
validate_date(date_str, field_name) ==
  IF strptime(date_str) = <<>>
    THEN Raise(field_name \o " debe tener formato YYYY-MM-DD. Recibido: "
                 \o date_str)
    ELSE Return(date_str)

\* The test of line 51.
CheckoutNotAfter_Strict(checkout_dt, checkin_dt) == DateBefore(checkout_dt, checkin_dt)
CheckoutNotAfter(checkout_dt, checkin_dt) == ~DateBefore(checkin_dt, checkout_dt)

\* The test of line 55.
CheckinIsPast_ByYear(checkin_dt, today) == checkin_dt[1] < today[1]
CheckinIsPast(checkin_dt, today) == DateBefore(checkin_dt, today)

\* validate_dates, called on the day today
validate_dates(checkin, checkout, today) ==
  LET r1 == validate_date(checkin, "checkin_date")
      r2 == validate_date(checkout, "checkout_date")
  IN  IF r1.raised THEN r1
      ELSE IF r2.raised THEN r2
      ELSE LET checkin_dt == strptime(r1.value)
               checkout_dt == strptime(r2.value)
           IN  IF CheckoutNotAfter(checkout_dt, checkin_dt)
                 THEN Raise("checkout_date debe ser posterior a checkin_date")
               ELSE IF CheckinIsPast(checkin_dt, today)
                 THEN Raise("checkin_date no puede ser una fecha pasada")
               ELSE Return(<<r1.value, r2.value>>)

NotCalled == [raised |-> FALSE, error |-> "not called", value |-> <<>>]

ValidatorInit ==
  /\ v_checkin \in DateStrings
  /\ v_checkout \in DateStrings
  /\ v_today \in Todays
  /\ v_result = NotCalled

\* run_scraping calls validate_dates.
call_validate_dates ==
  /\ v_result = NotCalled
  /\ UNCHANGED notValidatorVars
  /\ v_result' = validate_dates(v_checkin, v_checkout, v_today)
  /\ UNCHANGED <<v_checkin, v_checkout, v_today>>

ValidatorStep == call_validate_dates

(***************************************************************************)
(* BookingScraper._build_url                                               *)
(***************************************************************************)
\* The arguments tried.
UrlMaxHotels == {10, 501}
UrlCheckins == {"2026-03-01", "2026-04-10"}
UrlCheckouts == {"2026-03-02", "2026-04-11"}
UrlAdults == {2, 3}
UrlRooms == {2}
UrlChildren == {1}
OptionalArgs == {"group_adults", "rooms_number", "group_children"}
\* The optional arguments a call passes: none, the first, or all three.
UrlGiven == {{}, {"group_adults"}, OptionalArgs}

\* The defaults of __init__, lines 36-38.
DefaultArgs == [group_adults |-> 2, rooms_number |-> 1, group_children |-> 0]

\* str.lstrip(chars) and str.rstrip(chars)
RECURSIVE LStripChars(_, _)
LStripChars(s, chars) ==
  IF Len(s) > 0 /\ Char(s, 1) \in chars
    THEN LStripChars(SubSeq(s, 2, Len(s)), chars)
    ELSE s

RECURSIVE RStripChars(_, _)
RStripChars(s, chars) ==
  IF Len(s) > 0 /\ Char(s, Len(s)) \in chars
    THEN RStripChars(SubSeq(s, 1, Len(s) - 1), chars)
    ELSE s

\* f"{n}" of an int
FormatInt(n) == ToString(n)

\* _build_url
_build_url_WithMaxHotels(self) ==
  "https://www.booking.com/searchresults.html?ss=Buenos+Aires"
    \o "&checkin=" \o self.checkin_date
    \o "&checkout=" \o self.checkout_date
    \o "&group_adults=" \o FormatInt(self.group_adults)
    \o "&no_rooms=" \o FormatInt(self.rooms_number)
    \o "&group_children=" \o FormatInt(self.group_children)
    \o "&rows=" \o FormatInt(self.max_hotels)
    \o "&lang=en-us"
_build_url(self) ==
  LET base_url == "https://www.booking.com"
      params ==
        "/searchresults.html?ss=Buenos+Aires"
          \o "&ssne=Buenos+Aires&ssne_untouched=Buenos+Aires"
          \o "&dest_id=-979186&dest_type=city"
          \o "&checkin=" \o self.checkin_date
          \o "&checkout=" \o self.checkout_date
          \o "&group_adults=" \o FormatInt(self.group_adults)
          \o "&no_rooms=" \o FormatInt(self.rooms_number)
          \o "&group_children=" \o FormatInt(self.group_children)
          \o "&lang=en-us"
  IN  RStripChars(base_url, {"/"}) \o "/" \o LStripChars(params, {"/"})

\* BookingScraper(max_hotels, checkin_date, checkout_date, ...): args holds
\* the optional arguments and given says which of them the caller passed.
BookingScraper(max_h, checkin, checkout, args, given) ==
  LET Arg(a) == IF a \in given THEN args[a] ELSE DefaultArgs[a]
      fields == [max_hotels |-> InitMaxHotels(max_h),
                 checkin_date |-> checkin,
                 checkout_date |-> checkout,
                 group_adults |-> Arg("group_adults"),
                 rooms_number |-> Arg("rooms_number"),
                 group_children |-> Arg("group_children"),
                 _processed_hotels |-> {}]
  IN  [constructed |-> TRUE, self |-> fields, url |-> _build_url(fields)]

NoScraper ==
  [constructed |-> FALSE,
   self |-> [max_hotels |-> 0, checkin_date |-> "", checkout_date |-> "",
             group_adults |-> 0, rooms_number |-> 0, group_children |-> 0,
             _processed_hotels |-> {}],
   url |-> ""]

UrlInit ==
  /\ u_scrapers = [i \in {1, 2} |-> NoScraper]
  /\ u_given = [i \in {1, 2} |-> {}]
  /\ u_built = [i \in {1, 2} |-> ""]

\* A caller constructs a scraper.
new_BookingScraper ==
  /\ UNCHANGED notUrlVars
  /\ \E i \in {1, 2} :
       /\ ~u_scrapers[i].constructed
       /\ \E max_h \in UrlMaxHotels, checkin \in UrlCheckins,
             checkout \in UrlCheckouts, adults \in UrlAdults,
             rooms \in UrlRooms, children \in UrlChildren,
             given \in UrlGiven :
            /\ u_scrapers' =
                 [u_scrapers EXCEPT ![i] =
                    BookingScraper(max_h, checkin, checkout,
                                   [group_adults |-> adults,
                                    rooms_number |-> rooms,
                                    group_children |-> children], given)]
            /\ u_given' = [u_given EXCEPT ![i] = given]
  /\ UNCHANGED u_built

\* The scraper runs: _parse_hotel_card records a link (line 233).
scraper_records_link ==
  /\ UNCHANGED notUrlVars
  /\ \E i \in {1, 2} :
       /\ u_scrapers[i].constructed
       /\ u_scrapers[i].self._processed_hotels = {}
       /\ u_scrapers' =
            [u_scrapers EXCEPT ![i].self._processed_hotels = {"a"}]
  /\ UNCHANGED <<u_given, u_built>>

\* A caller calls _build_url().
call_build_url ==
  /\ UNCHANGED notUrlVars
  /\ \E i \in {1, 2} :
       /\ u_scrapers[i].constructed
       /\ u_built[i] = ""
       /\ u_built' = [u_built EXCEPT ![i] = _build_url(u_scrapers[i].self)]
  /\ UNCHANGED <<u_scrapers, u_given>>

UrlStep == new_BookingScraper \/ scraper_records_link \/ call_build_url

(***************************************************************************)
(* BookingScraper._clean_price                                             *)
(***************************************************************************)
\* The characters the made-up price texts are built from.
PriceChars == {"1", "0", ",", ".", "$"}

\* The strings over PriceChars of length at most n.
RECURSIVE StringsUpTo(_)
StringsUpTo(n) ==
  IF n = 0 THEN {""}
  ELSE LET shorter == StringsUpTo(n - 1)
       IN  shorter \cup {t \o c : t \in shorter, c \in PriceChars}

\* The texts tried: those of the page and of the tests, and the made-up ones.
PriceStrings ==
  {"$ 230,821", "+$ 61,426", "$ 1,234.56", "$ 150.75", "N/A", "",
   "Includes taxes", "Includes taxes and fees", "+$ 61,426 taxes and fees",
   "$_230,821", "$ 100 N/A", "US$1.234.567", "$ 0.50 + 3"}
    \cup StringsUpTo(MaxPriceLen)

PriceInit ==
  /\ p_price_str \in PriceStrings
  /\ p_result = NotCalled

\* A caller calls _clean_price.
call_clean_price ==
  /\ UNCHANGED notPriceVars
  /\ p_result = NotCalled
  /\ p_result' = _clean_price(p_price_str)
  /\ UNCHANGED p_price_str

PriceStep == call_clean_price

(***************************************************************************)
(* BookingScraper._parse_hotel_card, one call                              *)
(***************************************************************************)
\* The texts of the price element tried, "" for a missing element.
PriceTexts == {"", "$ 230,821", "$ 150.75", " $ 1,234.50 "}

\* The texts of the taxes-and-charges element tried.
FeesTexts ==
  {"", "Includes taxes and fees", "+$ 61,426 taxes and fees", "+$ 0.25"}

\* The dates a scraper is built with: run_scraping passes the strings
\* validate_dates has returned, which are those strptime takes.
ScraperDates ==
  {d \in DateStrings \cup {" 2026-11-05", "2026-11-05 "} : strptime(d) # <<>>}

ParseInit ==
  /\ k_self \in [checkin_date : ScraperDates, checkout_date : ScraperDates,
                  _processed_hotels : {{}, {"a"}}]
  /\ k_card \in [href : Hrefs, price : PriceTexts, fees : FeesTexts,
                  scraped : {FALSE}, seen : {TRUE}]
  /\ k_called = FALSE
  /\ k_result = [marked |-> FALSE, hotel |-> <<>>, processed |-> {}]

\* scrape() calls _parse_hotel_card (line 416).
call_parse_hotel_card ==
  /\ UNCHANGED notParseVars
  /\ ~k_called
  /\ k_called' = TRUE
  /\ \E evalOk \in BOOLEAN :
       k_result' = _parse_hotel_card(k_self, k_card, evalOk,
                                     k_self._processed_hotels)
  /\ k_self' = [k_self EXCEPT !._processed_hotels = k_result'.processed]
  /\ k_card' = [k_card EXCEPT !.scraped = k_result'.marked]

ParseStep == call_parse_hotel_card

(***************************************************************************)
(* main.run_scraping, with BookingScraper.__enter__, __exit__ and close    *)
(***************************************************************************)
\* The scraper's handles before __enter__ (lines 61-64).
NoHandles ==
  [_playwright |-> "None", _browser |-> "None", _context |-> "None",
   _page |-> "None"]

\* One 'if self._x: self._x.close(); self._x = None' of close().
Release(st, handle, resource) ==
  IF st.handles[handle] = "None" THEN st
  ELSE [handles |-> [st.handles EXCEPT ![handle] = "None"],
        live |-> st.live \ {resource},
        released |-> Append(st.released, resource)]

\* close(): page, context, browser, Playwright
close(st) ==
  Release(Release(Release(Release(st, "_page", "page"),
                          "_context", "context"),
                  "_browser", "browser"),
          "_playwright", "playwright")

\* The scraper's handles and the resources behind them, as one value.
Browser == [handles |-> r_handles, live |-> r_live, released |-> r_released]

BrowserBecomes(st) ==
  /\ r_handles' = st.handles
  /\ r_live' = st.live
  /\ r_released' = st.released

\* isinstance(exc, Exception), for the classes that occur
IsException(exc) == exc \in {"ValueError", "TypeError", "Error", "TimeoutError"}

\* Whether the result of validate_dates leaves the try block (line 94).
LeavesTry_Never(result) == FALSE
LeavesTry(result) == result.raised

\* Where an exception raised inside 'with CSVWriter() as writer' goes: the
\* with statement calls writer.__exit__.
RaiseInWriterBlock(exc) ==
  /\ r_exc' = exc
  /\ r_pc' = "writer_exit"

RunInit ==
  /\ r_pc = "start"
  /\ r_exc = ""
  /\ r_output_dir = FALSE
  /\ r_handles = NoHandles
  /\ r_live = {}
  /\ r_released = <<>>
  /\ r_failed_at = -1

\* line 94
run_validate_dates ==
  /\ r_pc = "start"
  /\ UNCHANGED notRunVars
  /\ v_result' = validate_dates(v_checkin, v_checkout, v_today)
  /\ IF LeavesTry(v_result')
       THEN r_pc' = "except" /\ r_exc' = "ValueError"
       ELSE r_pc' = "validated" /\ UNCHANGED r_exc
  /\ UNCHANGED <<v_checkin, v_checkout, v_today, writerVars, r_output_dir,
                 r_handles, r_live, r_released, r_failed_at>>

\* line 98: CSVWriter() makes the output directory and the with statement
\* enters it; batch_size is settings.BATCH_SIZE, scaled down to the sizes
\* the runs of the model fill.
run_CSVWriter ==
  /\ r_pc = "validated"
  /\ UNCHANGED notRunVars
  /\ \E size \in BatchSizes : batch_size' = size
  /\ _buffer' = FreshWriter.buffer
  /\ _file_counter' = FreshWriter.file_counter
  /\ _total_written' = FreshWriter.total_written
  /\ files' = FreshWriter.files
  /\ written_by' = FreshWriter.written_by
  /\ w_op' = "__init__"
  /\ w_pre' = FreshWriter
  /\ wfg_pc' = "idle"
  /\ r_output_dir' = TRUE
  /\ r_pc' = "writer"
  /\ UNCHANGED <<validatorVars, wfg_items, wfg_fresh, wfg_ret, r_exc,
                 r_handles, r_live, r_released, r_failed_at>>

\* lines 99-106 and 484: BookingScraper(...) and, in __enter__,
\* sync_playwright().start()
run_enter_playwright ==
  /\ r_pc = "writer"
  /\ UNCHANGED notRunVars
  /\ \E ok \in BOOLEAN :
       IF ok
         THEN /\ r_handles' = [r_handles EXCEPT !._playwright = "set"]
              /\ r_live' = r_live \cup {"playwright"}
              /\ r_pc' = "playwright"
              /\ UNCHANGED r_exc
         ELSE /\ RaiseInWriterBlock("Error")
              /\ UNCHANGED <<r_handles, r_live>>
  /\ UNCHANGED <<validatorVars, writerVars, r_output_dir, r_released,
                 r_failed_at>>

\* line 485: _init_browser launches the browser
run_enter_browser ==
  /\ r_pc = "playwright"
  /\ UNCHANGED notRunVars
  /\ \E ok \in BOOLEAN :
       IF ok
         THEN /\ r_handles' = [r_handles EXCEPT !._browser = "set"]
              /\ r_live' = r_live \cup {"browser"}
              /\ r_pc' = "browser"
              /\ UNCHANGED r_exc
         ELSE /\ RaiseInWriterBlock("Error")
              /\ UNCHANGED <<r_handles, r_live>>
  /\ UNCHANGED <<validatorVars, writerVars, r_output_dir, r_released,
                 r_failed_at>>

\* line 486: _create_context; settings.USER_AGENT[:50] or new_context may
\* raise
run_enter_context ==
  /\ r_pc = "browser"
  /\ UNCHANGED notRunVars
  /\ \E ok \in BOOLEAN :
       IF ok
         THEN /\ r_handles' = [r_handles EXCEPT !._context = "set"]
              /\ r_live' = r_live \cup {"context"}
              /\ r_pc' = "context"
              /\ UNCHANGED r_exc
         ELSE /\ RaiseInWriterBlock("TypeError")
              /\ UNCHANGED <<r_handles, r_live>>
  /\ UNCHANGED <<validatorVars, writerVars, r_output_dir, r_released,
                 r_failed_at>>

\* line 487: _navigate_to_search opens the page and goes to the URL; goto
\* may raise (a timeout), after the page has been opened
run_enter_navigate ==
  /\ r_pc = "context"
  /\ UNCHANGED notRunVars
  /\ r_handles' = [r_handles EXCEPT !._page = "set"]
  /\ r_live' = r_live \cup {"page"}
  /\ \E ok \in BOOLEAN :
       IF ok
         THEN \* line 107: write_from_generator(scraper.scrape()) starts
              /\ r_pc' = "scraping"
              /\ wfg_pc' = "iterating"
              /\ wfg_items' = <<>>
              /\ wfg_fresh' = (Writer = FreshWriter)
              /\ UNCHANGED r_exc
         ELSE /\ RaiseInWriterBlock("TimeoutError")
              /\ UNCHANGED <<wfg_pc, wfg_items, wfg_fresh>>
  /\ UNCHANGED <<validatorVars, batch_size, _buffer, _file_counter,
                 _total_written, files, written_by, w_op, w_pre, wfg_ret,
                 r_output_dir, r_released, r_failed_at>>

\* line 107, csv_writer.py lines 116-117: scrape() yields a hotel and
\* write_from_generator adds it
run_scrape_yields ==
  /\ r_pc = "scraping"
  /\ UNCHANGED notRunVars
  /\ Added < MaxAdds
  /\ \E hotel \in WriterHotels :
       /\ WriterBecomes(add_hotel(Writer, hotel), "add_hotel")
       /\ wfg_items' = Append(wfg_items, hotel)
  /\ UNCHANGED <<validatorVars, wfg_pc, wfg_fresh, wfg_ret, runVars>>

\* line 107: scrape() raises (the page is gone, an evaluate fails, the user
\* presses Ctrl+C); the with statement calls scraper.__exit__
run_scrape_raises ==
  /\ r_pc = "scraping"
  /\ UNCHANGED notRunVars
  /\ \E exc \in {"Error", "KeyboardInterrupt"} : r_exc' = exc
  /\ r_failed_at' = Len(wfg_items)
  /\ r_pc' = "scraper_exit"
  /\ UNCHANGED <<validatorVars, writerVars, r_output_dir, r_handles, r_live,
                 r_released>>

\* line 107, csv_writer.py lines 119-122: scrape() ends and
\* write_from_generator flushes and returns
run_scrape_ends ==
  /\ r_pc = "scraping"
  /\ UNCHANGED notRunVars
  /\ LET r == write_from_generator_end(Writer) IN
       /\ WriterBecomes(r.w, "flush")
       /\ wfg_ret' = r.ret
  /\ wfg_pc' = "returned"
  /\ r_pc' = "scraper_exit"
  /\ UNCHANGED <<validatorVars, wfg_items, wfg_fresh, r_exc, r_output_dir,
                 r_handles, r_live, r_released, r_failed_at>>

\* scraper.__exit__ (lines 490-494): close()
run_scraper_exit ==
  /\ r_pc = "scraper_exit"
  /\ UNCHANGED notRunVars
  /\ BrowserBecomes(close(Browser))
  /\ r_pc' = IF r_exc = "" THEN "stats" ELSE "writer_exit"
  /\ UNCHANGED <<validatorVars, writerVars, r_exc, r_output_dir, r_failed_at>>

\* line 109: get_stats, inside the writer's with block
run_get_stats ==
  /\ r_pc = "stats"
  /\ UNCHANGED notRunVars
  /\ r_pc' = "writer_exit"
  /\ UNCHANGED <<validatorVars, writerVars, r_exc, r_output_dir, r_handles,
                 r_live, r_released, r_failed_at>>

\* writer.__exit__, on the normal and on the exceptional path; then the
\* prints of lines 111-113, or the except of line 115
run_writer_exit ==
  /\ r_pc = "writer_exit"
  /\ UNCHANGED notRunVars
  /\ WriterBecomes(__exit__(Writer), "__exit__")
  /\ r_pc' = IF r_exc = "" THEN "returned" ELSE "except"
  /\ UNCHANGED <<validatorVars, wfg_pc, wfg_items, wfg_fresh, wfg_ret, r_exc,
                 r_output_dir, r_handles, r_live, r_released, r_failed_at>>

\* lines 115-116: an Exception is printed and run_scraping returns; any
\* other exception goes on to the caller
run_except ==
  /\ r_pc = "except"
  /\ UNCHANGED notRunVars
  /\ r_pc' = IF IsException(r_exc) THEN "returned" ELSE "propagated"
  /\ UNCHANGED <<validatorVars, writerVars, r_exc, r_output_dir, r_handles,
                 r_live, r_released, r_failed_at>>

\* A caller calls close() once more.
call_close ==
  /\ r_pc \in {"returned", "propagated"}
  /\ UNCHANGED notRunVars
  /\ BrowserBecomes(close(Browser))
  /\ r_pc' = "closed_again"
  /\ UNCHANGED <<validatorVars, writerVars, r_exc, r_output_dir, r_failed_at>>

RunStep ==
  \/ run_validate_dates
  \/ run_CSVWriter
  \/ run_enter_playwright
  \/ run_enter_browser
  \/ run_enter_context
  \/ run_enter_navigate
  \/ run_scrape_yields
  \/ run_scrape_raises
  \/ run_scrape_ends
  \/ run_scraper_exit
  \/ run_get_stats
  \/ run_writer_exit
  \/ run_except
  \/ call_close

(***************************************************************************)
(* The specifications: each runs one component and leaves the others at    *)
(* rest.                                                                   *)
(***************************************************************************)
ScraperAtRest ==
  /\ requested = 0
  /\ max_hotels = 0
  /\ _processed_hotels = {}
  /\ dom = <<>>
  /\ pc = "rest"
  /\ scraped_count = 0
  /\ no_new_content_attempts = 0
  /\ previous_count = 0
  /\ cards = <<>>
  /\ yielded = <<>>
  /\ exit_path = "rest"
  /\ wait_timed_out = FALSE
  /\ delay = 0

WriterAtRest ==
  /\ batch_size = 0
  /\ _buffer = <<>>
  /\ _file_counter = 0
  /\ _total_written = 0
  /\ files = <<>>
  /\ written_by = <<>>
  /\ w_op = "rest"
  /\ w_pre = FreshWriter
  /\ wfg_pc = "rest"
  /\ wfg_items = <<>>
  /\ wfg_fresh = FALSE
  /\ wfg_ret = 0

UrlAtRest ==
  /\ u_scrapers = <<>>
  /\ u_given = <<>>
  /\ u_built = <<>>

PriceAtRest ==
  /\ p_price_str = ""
  /\ p_result = [raised |-> FALSE, error |-> "rest", value |-> <<>>]

ParseAtRest ==
  /\ k_self = <<>>
  /\ k_card = <<>>
  /\ k_called = FALSE
  /\ k_result = <<>>

RunAtRest ==
  /\ r_pc = "rest"
  /\ r_exc = ""
  /\ r_output_dir = FALSE
  /\ r_handles = NoHandles
  /\ r_live = {}
  /\ r_released = <<>>
  /\ r_failed_at = -1

ValidatorAtRest ==
  /\ v_checkin = ""
  /\ v_checkout = ""
  /\ v_today = <<1, 1, 1>>
  /\ v_result = [raised |-> FALSE, error |-> "rest", value |-> <<>>]

Init ==
  ScraperInit /\ WriterAtRest /\ ValidatorAtRest /\ UrlAtRest /\ PriceAtRest
    /\ ParseAtRest /\ RunAtRest

Next == ScrapeStep \/ PageStep

Spec == Init /\ [][Next]_vars

\* The interpreter keeps running scrape(): every wait in it is bounded (the
\* poll's timeout, the backoff's sleep).
FairSpec == Spec /\ WF_vars(ScrapeStep)

\* A CSVWriter and the calls made on it.
WriterSpecInit ==
  WriterInit /\ ScraperAtRest /\ ValidatorAtRest /\ UrlAtRest /\ PriceAtRest
    /\ ParseAtRest /\ RunAtRest

WriterSpec == WriterSpecInit /\ [][WriterStep]_vars

\* One call of validate_dates.
ValidatorSpecInit ==
  ValidatorInit /\ ScraperAtRest /\ WriterAtRest /\ UrlAtRest /\ PriceAtRest
    /\ ParseAtRest /\ RunAtRest

ValidatorSpec == ValidatorSpecInit /\ [][ValidatorStep]_vars

\* Two scrapers and the _build_url calls made on them.
UrlSpecInit ==
  UrlInit /\ ScraperAtRest /\ WriterAtRest /\ ValidatorAtRest /\ PriceAtRest
    /\ ParseAtRest /\ RunAtRest

UrlSpec == UrlSpecInit /\ [][UrlStep]_vars

\* One call of _clean_price.
PriceSpecInit ==
  PriceInit /\ ScraperAtRest /\ WriterAtRest /\ ValidatorAtRest /\ UrlAtRest
    /\ ParseAtRest /\ RunAtRest

PriceSpec == PriceSpecInit /\ [][PriceStep]_vars

\* One call of _parse_hotel_card.
ParseSpecInit ==
  ParseInit /\ ScraperAtRest /\ WriterAtRest /\ ValidatorAtRest /\ UrlAtRest
    /\ PriceAtRest /\ RunAtRest

ParseSpec == ParseSpecInit /\ [][ParseStep]_vars

\* One call of run_scraping.
RunSpecInit ==
  RunInit /\ ValidatorInit /\ WriterAtRest /\ ScraperAtRest /\ UrlAtRest
    /\ PriceAtRest /\ ParseAtRest

RunSpec == RunSpecInit /\ [][RunStep]_vars

(***************************************************************************)
(* Claims about scrape().                                                  *)
(***************************************************************************)
\* C1: scrape() never yields more than min(requested max_hotels, 500)
\* hotels: the constructor turns a request above 500 into 500 and keeps one
\* of at most 500, and a request of 0 or less yields nothing.
C1_YieldedWithinCap ==
  /\ requested > 500 => max_hotels = 500
  /\ requested <= 500 => max_hotels = requested
  /\ requested <= 0 => Len(yielded) = 0
  /\ requested > 0 => Len(yielded) <= requested /\ Len(yielded) <= 500
  /\ scraped_count = Len(yielded)

\* C1's case: a run that stopped at its cap of 2 with a card of an unseen
\* link still unvisited on the page.
C1_Witness ==
  /\ pc = "done"
  /\ requested = 2
  /\ Len(yielded) = 2
  /\ \E i \in 1..Len(dom) :
       /\ ~dom[i].scraped
       /\ _extract_href_safe(dom[i]) \notin _processed_hotels

\* C2: no two hotels yielded in one run carry the same link_detalle.
C2_NoTwoYieldedShareALink ==
  \A i, j \in 1..Len(yielded) :
    i # j => yielded[i].link_detalle # yielded[j].link_detalle

\* C2, its second half: _processed_hotels is the set of the links of the
\* hotels accepted so far.
C2_ProcessedAreTheYieldedLinks ==
  _processed_hotels = {yielded[i].link_detalle : i \in 1..Len(yielded)}

\* C3: once an attempt to load more has found no new content, scrape() gives
\* up short of its cap only after MAX_RETRIES consecutive such attempts.
C3_GivesUpOnlyAfterMaxRetries ==
  (pc = "done" /\ exit_path # "cap" /\ no_new_content_attempts > 0)
    => no_new_content_attempts >= MAX_RETRIES

\* C4: every run of scrape() eventually terminates, whatever the page does.
C4_ScrapeTerminates == <>(pc = "done")

(***************************************************************************)
(* Claims about CSVWriter.                                                 *)
(***************************************************************************)
\* The names the files are to carry, in the order they are written.
BookingHotelsCsv ==
  <<"booking_hotels_001.csv", "booking_hotels_002.csv",
    "booking_hotels_003.csv", "booking_hotels_004.csv",
    "booking_hotels_005.csv", "booking_hotels_006.csv",
    "booking_hotels_007.csv", "booking_hotels_008.csv",
    "booking_hotels_009.csv">>

\* The rows of the first k files, in order; a file that is missing has none.
RowsOfFirst(k) ==
  LET Rows[i \in 0..k] ==
        IF i = 0 THEN <<>>
        ELSE Rows[i - 1] \o (IF BookingHotelsCsv[i] \in DOMAIN files
                               THEN files[BookingHotelsCsv[i]] ELSE <<>>)
  IN  Rows[k]

RECURSIVE RecordsIn(_, _)
RecordsIn(fs, names) ==
  IF names = {} THEN 0
  ELSE LET f == CHOOSE x \in names : TRUE
       IN  Len(fs[f]) + RecordsIn(fs, names \ {f})

\* C5: a file written because of add_hotel holds exactly batch_size records;
\* a file written by flush or __exit__ holds between 1 and batch_size - 1;
\* and when write_from_generator has run on a fresh writer, a file shorter
\* than batch_size is the last one.
C5_FixedSizeBatches ==
  /\ \A f \in DOMAIN files :
       /\ written_by[f] = "add_hotel" => Len(files[f]) = batch_size
       /\ written_by[f] \in {"flush", "__exit__"}
            => Len(files[f]) >= 1 /\ Len(files[f]) <= batch_size - 1
  /\ (wfg_pc = "returned" /\ wfg_fresh) =>
       \A f \in DOMAIN files :
         Len(files[f]) < batch_size => f = BookingHotelsCsv[_file_counter]

\* C5's case: a full file written from add_hotel and a shorter one written
\* by a flush.
C5_Witness ==
  /\ batch_size >= 2
  /\ \E f, g \in DOMAIN files :
       /\ written_by[f] = "add_hotel"
       /\ written_by[g] = "flush"
       /\ Len(files[g]) < Len(files[f])

\* C6: write_from_generator on a fresh writer, over an iterator of n
\* hotels, returns n, leaves the buffer empty, has all n records on disk
\* in order, and has made ceil(n / batch_size) files.
C6_WriteFromGenerator ==
  (wfg_pc = "returned" /\ wfg_fresh) =>
    LET n == Len(wfg_items) IN
    /\ wfg_ret = n
    /\ _buffer = <<>>
    /\ RowsOfFirst(Cardinality(DOMAIN files)) = wfg_items
    /\ Cardinality(DOMAIN files) = (n + batch_size - 1) \div batch_size

\* C6's case: 4 hotels in batches of 3, so a full file and a short one.
C6_Witness ==
  /\ wfg_pc = "returned"
  /\ wfg_fresh
  /\ Len(wfg_items) = 4
  /\ batch_size = 3

\* C7: flush and _write_batch, called with an empty buffer, leave the files,
\* _file_counter, _total_written and the buffer as they were.
C7_EmptyBufferChangesNothing ==
  (w_op \in {"flush", "_write_batch"} /\ w_pre.buffer = <<>>) =>
    /\ files = w_pre.files
    /\ _file_counter = w_pre.file_counter
    /\ _total_written = w_pre.total_written
    /\ _buffer = w_pre.buffer

\* C7's case: _write_batch called with an empty buffer on a writer that has
\* already written a file.
C7_Witness ==
  /\ w_op = "_write_batch"
  /\ w_pre.buffer = <<>>
  /\ w_pre.file_counter >= 1

\* C8: flush with k >= 1 hotels buffered writes one new file holding those
\* k records, empties the buffer and adds k to _total_written; __exit__ does
\* that flush, so the buffer is empty after it.
C8_FlushWritesTheBuffer ==
  /\ (w_op \in {"flush", "__exit__"} /\ w_pre.buffer # <<>>) =>
       /\ _buffer = <<>>
       /\ _total_written = w_pre.total_written + Len(w_pre.buffer)
       /\ _file_counter = w_pre.file_counter + 1
       /\ \E f \in DOMAIN files \ DOMAIN w_pre.files :
            /\ DOMAIN files = DOMAIN w_pre.files \cup {f}
            /\ files[f] = w_pre.buffer
            /\ \A g \in DOMAIN w_pre.files : files[g] = w_pre.files[g]
  /\ w_op = "__exit__" => _buffer = <<>>

\* C8's case: the with-block left with 2 hotels buffered.
C8_Witness ==
  /\ w_op = "__exit__"
  /\ Len(w_pre.buffer) = 2
  /\ w_pre.file_counter >= 1

\* C9: the files written are booking_hotels_001.csv to booking_hotels_k.csv
\* with k = get_stats()["files_created"], and get_stats()["total_written"]
\* is the number of records in them.
C9_ConsecutiveFilesAndTotals ==
  LET stats == get_stats(Writer) IN
  /\ DOMAIN files = {BookingHotelsCsv[k] : k \in 1..stats.files_created}
  /\ stats.total_written = RecordsIn(files, DOMAIN files)

\* C9's case: three files of different sizes.
C9_Witness ==
  /\ get_stats(Writer).files_created = 3
  /\ get_stats(Writer).total_written = 4
  /\ \E f \in DOMAIN files : Len(files[f]) = 2

(***************************************************************************)
(* Claims about validate_dates.                                            *)
(***************************************************************************)
\* A string of the form YYYY-MM-DD that names a day of the calendar.
IsYYYYMMDD(s) ==
  /\ Len(s) = 10
  /\ \A i \in {1, 2, 3, 4, 6, 7, 9, 10} : IsDigit(Char(s, i))
  /\ Char(s, 5) = "-"
  /\ Char(s, 8) = "-"
  /\ LET y == GroupValue(SubSeq(s, 1, 4))
         m == GroupValue(SubSeq(s, 6, 7))
         d == GroupValue(SubSeq(s, 9, 10))
     IN  y >= 1 /\ m \in 1..12 /\ d >= 1 /\ d <= DaysInMonth(y, m)

DayOf(s) ==
  <<GroupValue(SubSeq(s, 1, 4)), GroupValue(SubSeq(s, 6, 7)),
    GroupValue(SubSeq(s, 9, 10))>>

\* C10: validate_dates returns (checkin, checkout) exactly when both are
\* well-formed YYYY-MM-DD dates, checkout is after checkin and checkin is
\* not before today; otherwise it raises ValueError.
C10_ReturnsExactlyForValidDates ==
  v_result # NotCalled =>
    IF /\ IsYYYYMMDD(v_checkin)
       /\ IsYYYYMMDD(v_checkout)
       /\ DateBefore(DayOf(v_checkin), DayOf(v_checkout))
       /\ ~DateBefore(DayOf(v_checkin), v_today)
      THEN v_result = Return(<<v_checkin, v_checkout>>)
      ELSE v_result.raised

\* C11: for well-formed dates, validate_dates raises ValueError with the
\* message 'checkout_date debe ser posterior a checkin_date' whenever
\* checkout is earlier than or equal to checkin.
C11_CheckoutNotAfterCheckinRaises ==
  (/\ v_result # NotCalled
   /\ IsYYYYMMDD(v_checkin)
   /\ IsYYYYMMDD(v_checkout)
   /\ ~DateBefore(DayOf(v_checkin), DayOf(v_checkout)))
    => v_result = Raise("checkout_date debe ser posterior a checkin_date")

\* C11's case: the call was made with checkout on the day of checkin, a day
\* that is not in the past.
C11_Witness ==
  /\ v_result.raised
  /\ IsYYYYMMDD(v_checkin)
  /\ v_checkout = v_checkin
  /\ ~DateBefore(DayOf(v_checkin), v_today)

\* C12, as stated: for well-formed dates, validate_dates raises ValueError
\* with the message 'checkin_date no puede ser una fecha pasada' whenever
\* checkin is a day before today.
C12_PastCheckinRaises ==
  (/\ v_result # NotCalled
   /\ IsYYYYMMDD(v_checkin)
   /\ IsYYYYMMDD(v_checkout)
   /\ DateBefore(DayOf(v_checkin), v_today))
    => v_result = Raise("checkin_date no puede ser una fecha pasada")

\* C12, amended: for well-formed dates with checkout after checkin,
\* validate_dates raises ValueError with the message 'checkin_date no puede
\* ser una fecha pasada' whenever checkin is a day before today; with
\* checkout not after checkin it raises ValueError all the same, with the
\* message of the order test, which comes first.
C12_PastCheckinRaisesWhenOrdered ==
  (/\ v_result # NotCalled
   /\ IsYYYYMMDD(v_checkin)
   /\ IsYYYYMMDD(v_checkout)
   /\ DateBefore(DayOf(v_checkin), v_today))
    => /\ v_result.raised
       /\ v_result.error =
            IF DateBefore(DayOf(v_checkin), DayOf(v_checkout))
              THEN "checkin_date no puede ser una fecha pasada"
              ELSE "checkout_date debe ser posterior a checkin_date"

\* C12's case: the call was made with a checkin of yesterday, in the year of
\* today, and a checkout after it.
C12_Witness ==
  /\ v_result.raised
  /\ IsYYYYMMDD(v_checkin)
  /\ IsYYYYMMDD(v_checkout)
  /\ DayOf(v_checkin)[1] = v_today[1]
  /\ DateBefore(DayOf(v_checkin), v_today)
  /\ DateBefore(DayOf(v_checkin), DayOf(v_checkout))

(***************************************************************************)
(* Claims about _build_url.                                                *)
(***************************************************************************)
\* t in s
Contains(s, t) ==
  \E i \in 1..(Len(s) - Len(t) + 1) : SubSeq(s, i, i + Len(t) - 1) = t

\* The parameters _build_url is to depend on.
UrlParams(self) ==
  <<self.checkin_date, self.checkout_date, self.group_adults,
    self.rooms_number, self.group_children>>

\* C13: _build_url is a function of (checkin_date, checkout_date,
\* group_adults, rooms_number, group_children) alone: two scrapers equal in
\* these give equal URLs, whatever their max_hotels and whatever they have
\* scraped; the URL holds checkin=, checkout=, group_adults=, no_rooms= and
\* group_children= with the scraper's values, which are 2, 1 and 0 for the
\* optional arguments left out.
C13_BuildUrlDependsOnParamsOnly ==
  /\ \A i, j \in DOMAIN u_scrapers :
       (/\ u_built[i] # ""
        /\ u_built[j] # ""
        /\ UrlParams(u_scrapers[i].self) = UrlParams(u_scrapers[j].self))
         => /\ u_built[i] = u_built[j]
            /\ u_scrapers[i].url = u_built[j]
  /\ \A i \in DOMAIN u_scrapers :
       u_built[i] # "" =>
         LET self == u_scrapers[i].self
             url == u_built[i]
         IN  /\ Contains(url, "&checkin=" \o self.checkin_date \o "&")
             /\ Contains(url, "&checkout=" \o self.checkout_date \o "&")
             /\ Contains(url, "&group_adults=" \o ToString(self.group_adults) \o "&")
             /\ Contains(url, "&no_rooms=" \o ToString(self.rooms_number) \o "&")
             /\ Contains(url, "&group_children=" \o ToString(self.group_children) \o "&")
             /\ "group_adults" \notin u_given[i] => Contains(url, "&group_adults=2&")
             /\ "rooms_number" \notin u_given[i] => Contains(url, "&no_rooms=1&")
             /\ "group_children" \notin u_given[i] => Contains(url, "&group_children=0&")

\* C13's case: two scrapers with equal search parameters, different
\* max_hotels and different scraping state, one built with the optional
\* arguments left out, both asked for their URL.
C13_Witness ==
  /\ u_built[1] # ""
  /\ u_built[2] # ""
  /\ UrlParams(u_scrapers[1].self) = UrlParams(u_scrapers[2].self)
  /\ u_scrapers[1].self.max_hotels # u_scrapers[2].self.max_hotels
  /\ u_scrapers[1].self._processed_hotels # u_scrapers[2].self._processed_hotels
  /\ u_given[1] = {}
  /\ u_given[2] # {}

(***************************************************************************)
(* Claims about _clean_price.                                              *)
(***************************************************************************)
\* The first run of digits, commas and dots of s that starts with a digit,
\* as the positions <<first, last>> of s; <<0, 0>> if s has no digit.
FirstNumericRun(s) ==
  IF \A i \in 1..Len(s) : ~IsDigit(Char(s, i)) THEN <<0, 0>>
  ELSE LET first == CHOOSE i \in 1..Len(s) :
                      /\ IsDigit(Char(s, i))
                      /\ \A j \in 1..(i - 1) : ~IsDigit(Char(s, j))
           InRun(j) == IsDigit(Char(s, j)) \/ Char(s, j) \in {",", "."}
           last == CHOOSE k \in first..Len(s) :
                     /\ \A j \in first..k : InRun(j)
                     /\ k = Len(s) \/ ~InRun(k + 1)
       IN  <<first, last>>

\* The characters of s from first to last that are not commas.
WithoutCommas(s, first, last) ==
  LET Kept[j \in (first - 1)..last] ==
        IF j = first - 1 THEN ""
        ELSE IF Char(s, j) = "," THEN Kept[j - 1]
        ELSE Kept[j - 1] \o Char(s, j)
  IN  Kept[last]

\* The decimal number t names, t being digits with at most one dot.
NumberOf(t) ==
  LET dot == IF \E i \in 1..Len(t) : Char(t, i) = "."
               THEN CHOOSE i \in 1..Len(t) : Char(t, i) = "."
               ELSE Len(t) + 1
      decimals == Len(t) - dot
      AllDigits[j \in 0..Len(t)] ==
        IF j = 0 THEN 0
        ELSE IF j = dot THEN AllDigits[j - 1]
        ELSE 10 * AllDigits[j - 1] + DigitValue(Char(t, j))
      Tens[k \in 0..Len(t)] == IF k = 0 THEN 1 ELSE 10 * Tens[k - 1]
      \* the most decimals that can go without changing the number
      drop == CHOOSE k \in 0..(IF decimals < 0 THEN 0 ELSE decimals) :
                /\ AllDigits[Len(t)] % Tens[k] = 0
                /\ \A m \in (k + 1)..decimals : AllDigits[Len(t)] % Tens[m] # 0
  IN  <<AllDigits[Len(t)] \div Tens[drop],
        (IF decimals < 0 THEN 0 ELSE decimals) - drop>>

\* C14: _clean_price never raises; it returns 0.0 for the empty string, for
\* a string that holds 'N/A' and for a string without a digit; for a price
\* text it returns the number its first numeric run names once the commas
\* are removed; '$ 230,821' gives 230821.0, '+$ 61,426' gives 61426.0 and
\* '$ 1,234.56' gives 1234.56.
C14_CleanPrice ==
  p_result # NotCalled =>
    LET s == p_price_str
        run == FirstNumericRun(s)
        t == WithoutCommas(s, run[1], run[2])
    IN  /\ ~p_result.raised
        /\ Len(p_result.value) = 2
        /\ (s = "" \/ Contains(s, "N/A") \/ run = <<0, 0>>)
             => p_result.value = <<0, 0>>
        /\ (/\ ~Contains(s, "N/A")
            /\ run # <<0, 0>>
            /\ Cardinality({i \in 1..Len(t) : Char(t, i) = "."}) <= 1)
             => p_result.value = NumberOf(t)
        /\ s = "$ 230,821" => p_result.value = <<230821, 0>>
        /\ s = "+$ 61,426" => p_result.value = <<61426, 0>>
        /\ s = "$ 1,234.56" => p_result.value = <<123456, 2>>
        /\ s = "Includes taxes" => p_result.value = <<0, 0>>

\* C14's case: the call was made on a text that holds a price with a
\* thousands comma and decimals after other text.
C14_Witness ==
  /\ p_result # NotCalled
  /\ p_price_str = "$ 1,234.56"
  /\ p_result.value = <<123456, 2>>

(***************************************************************************)
(* Claims about the waits of scrape().                                     *)
(***************************************************************************)
\* C15: _wait_for_new_content, as scrape() calls it after a scroll or a
\* click, returns False only when no new card was loaded: when it has
\* returned False, every card of the page is one that a pass has read.
C15_WaitReturnsFalseOnlyWithoutNewCards ==
  (pc = "no_content" /\ wait_timed_out) =>
    \A i \in 1..Len(dom) : dom[i].seen

\* The delays of settings.BACKOFF_FACTOR ** n for n = 1..4.
BackoffSeconds == <<4, 16, 64, 256>>

\* C16: the attempt counter stays within 0..MAX_RETRIES; _apply_backoff
\* sleeps only after an attempt without new content that is not the
\* MAX_RETRIES-th, never after a successful load and never once scrape() has
\* given up; and after the n-th consecutive such attempt it sleeps
\* BACKOFF_FACTOR**n seconds: 4, 16, 64, 256.
C16_BackoffDelays ==
  /\ no_new_content_attempts \in 0..MAX_RETRIES
  /\ delay # 0 <=> pc = "backoff"
  /\ pc = "backoff" =>
       /\ no_new_content_attempts \in 1..(MAX_RETRIES - 1)
       /\ delay = BackoffSeconds[no_new_content_attempts]

\* C16's case: the sleep after the fourth consecutive attempt without new
\* content.
C16_Witness ==
  /\ pc = "backoff"
  /\ no_new_content_attempts = 4
  /\ delay = 256

(***************************************************************************)
(* Claims about the hotels yielded.                                        *)
(***************************************************************************)
\* The hundredths in the number a str(float) text names: digits, a dot and
\* one or two decimals.
Hundredths(t) ==
  LET dot == CHOOSE i \in 1..Len(t) : Char(t, i) = "."
      decimals == SubSeq(t, dot + 1, Len(t))
  IN  100 * GroupValue(SubSeq(t, 1, dot - 1))
        + (IF Len(decimals) = 1 THEN 10 ELSE 1) * GroupValue(decimals)

\* C17: the hotel _parse_hotel_card returns, which scrape() yields, has
\* precio_final = precio_inicial + precio_impuesto; when the fees text has
\* no digit (a missing element, 'Includes taxes and fees') precio_impuesto
\* is 0.0 and precio_final is precio_inicial; and its checkin_date and
\* checkout_date are the scraper's.
C17_PrecioFinalIsTheSum ==
  (k_called /\ k_result.hotel # <<>>) =>
    LET hotel == k_result.hotel[1] IN
    /\ Hundredths(hotel.precio_final) =
         Hundredths(hotel.precio_inicial) + Hundredths(hotel.precio_impuesto)
    /\ (\A i \in 1..Len(k_card.fees) : ~IsDigit(Char(k_card.fees, i))) =>
         /\ hotel.precio_impuesto = "0.0"
         /\ hotel.precio_final = hotel.precio_inicial
    /\ hotel.checkin_date = k_self.checkin_date
    /\ hotel.checkout_date = k_self.checkout_date

\* C17's case: a hotel returned for a card with a price and a fee of its
\* own.
C17_Witness ==
  /\ k_called
  /\ k_result.hotel # <<>>
  /\ k_card.price = "$ 230,821"
  /\ k_card.fees = "+$ 61,426 taxes and fees"
  /\ k_result.hotel[1].precio_final = "292247.0"

(***************************************************************************)
(* Claims about run_scraping.                                              *)
(***************************************************************************)
\* C18: when validate_dates raises, run_scraping constructs no CSVWriter
\* (no output directory is made), starts no Playwright and launches no
\* browser, and it returns normally: the exception does not reach the
\* caller.
C18_InvalidDatesStartNothing ==
  (r_pc # "start" /\ v_result.raised) =>
    /\ ~r_output_dir
    /\ w_op = "rest"
    /\ r_handles = NoHandles
    /\ r_live = {}
    /\ r_released = <<>>
    /\ r_pc \in {"except", "returned", "closed_again"}

\* C18's case: run_scraping has returned after validate_dates refused a
\* checkout that is not after the checkin.
C18_Witness ==
  /\ r_pc = "returned"
  /\ r_exc = "ValueError"
  /\ v_result = Raise("checkout_date debe ser posterior a checkin_date")

\* C19: once run_scraping is over, every hotel that was passed to add_hotel
\* is on disk, in order, and none is left in the buffer: also when scrape()
\* raised after having yielded some.
C19_NoYieldedHotelIsLost ==
  (r_pc \in {"returned", "propagated"} /\ r_output_dir) =>
    /\ _buffer = <<>>
    /\ RowsOfFirst(Cardinality(DOMAIN files)) = wfg_items
    /\ _total_written = Len(wfg_items)

\* C19's case: scrape() raised after 4 hotels, the last of them not yet
\* written, and run_scraping has returned.
C19_Witness ==
  /\ r_pc = "returned"
  /\ r_failed_at = 4
  /\ batch_size = 3
  /\ w_op = "__exit__"
  /\ w_pre.buffer # <<>>

\* __enter__ has launched the browser: it is open, or close() has closed it.
BrowserLaunched ==
  "browser" \in r_live \/ \E i \in 1..Len(r_released) : r_released[i] = "browser"

\* C20: whenever __enter__ has launched the browser, the browser and
\* Playwright (and the context and the page) are closed by the time
\* run_scraping is over, on every path.
C20_BrowserClosedOnEveryPath ==
  (r_pc \in {"returned", "propagated"} /\ BrowserLaunched) => r_live = {}

====
